---- MODULE Spec2Model ----
(***************************************************************************)
(* gm: a command-line assistant that reads the pending changes of a git   *)
(* working tree and asks a text generator for one conventional-commit     *)
(* header, validating and re-prompting up to a fixed number of attempts.   *)
(*                                                                         *)
(* Texts are sequences of characters (one-character strings), so that     *)
(* trimming, cleanup, escaping and truncation are computed as the code    *)
(* computes them.                                                          *)
(***************************************************************************)
EXTENDS Integers, Sequences, FiniteSets, TLC

VARIABLES
    argv,             \* the argument list given to the process
    env,              \* the three API-key environment variables
    platform,         \* process.platform
    pc,               \* position of main
    parsed,           \* result of parseCliOptions
    exitCode,         \* Running while the process runs, then 0 or 1
    output,           \* everything printed, in order
    spawned,          \* every child process spawned, in order
    checkRepo,        \* GitResult of git rev-parse --is-inside-work-tree
    status,           \* GitResult of git status --short
    stagedDiff,       \* GitResult of git diff --cached
    unstagedDiff,     \* GitResult of git diff
    diffPayload,      \* the text given to generateCommitMessage
    requestInput,     \* history in the shape of the responses call
    requestMessages,  \* history in the shape of the chat-completions call
    attempt,          \* loop counter of generateCommitMessage
    candidate,        \* candidate of the current attempt
    issues,           \* violations of the last validated candidate
    structured,       \* what the last responses call of the loop did
    calls,            \* every generator call made, in order
    genError,         \* the error generateCommitMessage ended with
    message,          \* main's accepted message
    clipboard,        \* text last written to the system clipboard
    inFlight,         \* generator calls made that have not yet returned or thrown
    returned,         \* the generator call that returned or threw last
    fnPc,             \* position of a function applied on its own
    fnIn,             \* the arguments it is applied to
    fnOut             \* its results, in order

vars == <<argv, env, platform, pc, parsed, exitCode, output, spawned,
          checkRepo, status, stagedDiff, unstagedDiff, diffPayload, requestInput,
          requestMessages, attempt, candidate, issues, structured, calls,
          genError, message, clipboard, inFlight, returned, fnPc, fnIn,
          fnOut>>

-----------------------------------------------------------------------------
(* Bounds and program constants                                            *)

\* longest argument list given to the process
MaxArgs == 2

\* number of filler characters that makes a header just longer than the limit
LongFill == 95

DIFF_CHAR_LIMIT == 20000

HEADER_MAX_LENGTH == 100

maxAttempts == 3

\* length of a diff that, alone with a short status, brings the assembled
\* text close to DIFF_CHAR_LIMIT
DiffFill == 19931

\* longest text and largest limit truncate is applied to on its own
MaxText == 4

\* longest generator output cleanupModelMessage is applied to on its own
MaxRaw == 4

\* longest message the suggested command is built from on its own
MaxMessage == 4
MaxLimit == 3

\* exitCode while the process has not ended
Running == 0 - 1

-----------------------------------------------------------------------------
(* Characters and text utilities (src/src/text.ts)                         *)

SP == " "
NL == "\n"
TAB == "\t"
DQ == "\""
\* the backtick character (the lexer accepts no backtick inside a string)
BT == "BACKTICK"
BS == "\\"
DOLLAR == "$"

IsSpace(c) == c \in {SP, NL, TAB}

\* s.startsWith(p)
StartsWith(s, p) == Len(s) >= Len(p) /\ SubSeq(s, 1, Len(p)) = p

\* s.indexOf(c), 1-based, 0 when absent
IndexOf(s, c) ==
    IF \E i \in 1..Len(s) : s[i] = c
    THEN CHOOSE i \in 1..Len(s) : s[i] = c /\ \A j \in 1..(i - 1) : s[j] # c
    ELSE 0

\* index of the first character of s[lo..hi] that is no whitespace, 0 if none
RECURSIVE FirstNonSpace(_, _, _)
FirstNonSpace(s, lo, hi) ==
    IF lo > hi THEN 0
    ELSE IF lo = hi THEN (IF IsSpace(s[lo]) THEN 0 ELSE lo)
    ELSE LET mid == (lo + hi) \div 2
             left == FirstNonSpace(s, lo, mid)
         IN  IF left # 0 THEN left ELSE FirstNonSpace(s, mid + 1, hi)

\* index of the last character of s[lo..hi] that is no whitespace, 0 if none
RECURSIVE LastNonSpace(_, _, _)
LastNonSpace(s, lo, hi) ==
    IF lo > hi THEN 0
    ELSE IF lo = hi THEN (IF IsSpace(s[lo]) THEN 0 ELSE lo)
    ELSE LET mid == (lo + hi) \div 2
             right == LastNonSpace(s, mid + 1, hi)
         IN  IF right # 0 THEN right ELSE LastNonSpace(s, lo, mid)

\* String.prototype.trim
Trim(s) ==
    LET lo == FirstNonSpace(s, 1, Len(s))
    IN  IF lo = 0 THEN <<>> ELSE SubSeq(s, lo, LastNonSpace(s, 1, Len(s)))

\* raw.replace(/\s+/g, " ") on the characters lo..hi of s: a space for the
\* first character of each run of whitespace, nothing for the others
RECURSIVE CollapseRange(_, _, _)
CollapseRange(s, lo, hi) ==
    IF lo > hi THEN <<>>
    ELSE IF lo = hi
    THEN IF ~IsSpace(s[lo]) THEN <<s[lo]>>
         ELSE IF lo > 1 /\ IsSpace(s[lo - 1]) THEN <<>> ELSE <<SP>>
    ELSE LET mid == (lo + hi) \div 2
         IN  CollapseRange(s, lo, mid) \o CollapseRange(s, mid + 1, hi)

CollapseSpaces(s) == CollapseRange(s, 1, Len(s))

\* collapses the whitespace and does not trim
normalizeMessageWithoutTrim(raw) == CollapseSpaces(raw)

normalizeMessage(raw) == Trim(CollapseSpaces(raw))

\* s.replace(/^BT+|BT+$/g, ""), BT the backtick
StripBackticks(s) ==
    LET other == {i \in 1..Len(s) : s[i] # BT}
    IN  IF other = {} THEN <<>>
        ELSE LET lo == CHOOSE i \in other : \A j \in other : i <= j
                 hi == CHOOSE i \in other : \A j \in other : j <= i
             IN  SubSeq(s, lo, hi)

\* s.replace(/^"|"$/g, "")
StripQuotes(s) ==
    LET a == IF s # <<>> /\ Head(s) = DQ THEN Tail(s) ELSE s
    IN  IF a # <<>> /\ a[Len(a)] = DQ THEN SubSeq(a, 1, Len(a) - 1) ELSE a

\* strips the double quotes before the backticks
cleanupQuotesFirst(raw) == StripBackticks(StripQuotes(normalizeMessage(raw)))

cleanupModelMessage(raw) == StripQuotes(StripBackticks(normalizeMessage(raw)))

TruncationMarker ==
    <<NL, NL, "[", "t", "r", "u", "n", "c", "a", "t", "e", "d", "]">>

\* cuts the text and appends no marker
truncateNoMarker(text, maxChars) ==
    IF Len(text) <= maxChars THEN text ELSE SubSeq(text, 1, maxChars)

\* keeps the end of the text instead of its beginning
truncateKeepsTail(text, maxChars) ==
    IF Len(text) <= maxChars THEN text
    ELSE SubSeq(text, Len(text) - maxChars + 1, Len(text))
         \o <<NL, NL, "[", "t", "r", "u", "n", "c", "a", "t", "e", "d", "]">>

truncate(text, maxChars) ==
    IF Len(text) <= maxChars THEN text
    ELSE SubSeq(text, 1, maxChars) \o TruncationMarker

\* text.replace(/[\\"BT$]/g, "\\$&") on the characters lo..hi of text
RECURSIVE EscapeRange(_, _, _)
EscapeRange(text, lo, hi) ==
    IF lo > hi THEN <<>>
    ELSE IF lo = hi
    THEN IF text[lo] \in {BS, DQ, BT, DOLLAR} THEN <<BS, text[lo]>> ELSE <<text[lo]>>
    ELSE LET mid == (lo + hi) \div 2
         IN  EscapeRange(text, lo, mid) \o EscapeRange(text, mid + 1, hi)

\* escapes the double quote, the backtick and the dollar, not the backslash
shellEscapeWithoutBackslash(text) ==
    LET Escaped(i) == IF text[i] \in {DQ, BT, DOLLAR} THEN <<BS, text[i]>> ELSE <<text[i]>>
        Upto[n \in 0..Len(text)] == IF n = 0 THEN <<>> ELSE Upto[n - 1] \o Escaped(n)
    IN  Upto[Len(text)]

shellEscapeDoubleQuoted(text) == EscapeRange(text, 1, Len(text))

\* lines.join("\n")
RECURSIVE JoinLines(_)
JoinLines(lines) ==
    IF lines = <<>> THEN <<>>
    ELSE IF Len(lines) = 1 THEN Head(lines)
    ELSE Head(lines) \o <<NL>> \o JoinLines(Tail(lines))

\* a || b on strings
OrElse(a, b) == IF a # <<>> THEN a ELSE b

-----------------------------------------------------------------------------
(* Languages and the CLI option table (src/src/cli.ts)                     *)

EN == <<"e", "n">>
ZH == <<"z", "h">>
FR == <<"f", "r">>

DEFAULT_LANG == EN

isLang(value) == value = EN \/ value = ZH

ArgHelp == <<"-", "-", "h", "e", "l", "p">>
ArgLang == <<"-", "-", "l", "a", "n", "g">>
ArgBad == <<"-", "-", "b", "a", "d">>
ArgShortHelp == <<"-", "h">>
ArgShortLang == <<"-", "l">>
ArgLangZh == ArgLang \o <<"=">> \o ZH
ArgLangFr == ArgLang \o <<"=">> \o FR
ArgLangNone == ArgLang \o <<"=">>
ArgHelpValue == ArgHelp \o <<"=", "x">>

CLI_OPTION_DEFINITIONS ==
    << [long |-> <<"l", "a", "n", "g">>, short |-> <<"l">>, expectsValue |-> TRUE],
       [long |-> <<"h", "e", "l", "p">>, short |-> <<"h">>, expectsValue |-> FALSE] >>

\* createOptionLookup(...).get(token): index of the definition, 0 when absent
optionLookup(token) ==
    LET hits == {k \in 1..Len(CLI_OPTION_DEFINITIONS) :
                    \/ token = <<"-", "-">> \o CLI_OPTION_DEFINITIONS[k].long
                    \/ token = <<"-">> \o CLI_OPTION_DEFINITIONS[k].short}
    IN  IF hits = {} THEN 0 ELSE CHOOSE k \in hits : TRUE

\* the error returned with the default language, whatever was parsed before
ParseErrorDefaultLang(key, arg, options) ==
    [ok |-> FALSE, errorKey |-> key, errorArg |-> arg,
     lang |-> DEFAULT_LANG, help |-> options.help]

ParseError(key, arg, options) ==
    [ok |-> FALSE, errorKey |-> key, errorArg |-> arg,
     lang |-> options.lang, help |-> options.help]

\* takes the next argument for the value even when it is an option
nextIsValueEvenOption(args, i) == i + 1 <= Len(args) /\ args[i + 1] # <<>>

\* nextArg && !nextArg.startsWith("-")
nextIsValue(args, i) ==
    /\ i + 1 <= Len(args)
    /\ args[i + 1] # <<>>
    /\ ~StartsWith(args[i + 1], <<"-">>)

\* the body of the for loop of parseCliOptions, from index i on
RECURSIVE parseFrom(_, _, _)
parseFrom(args, i, options) ==
    IF i > Len(args)
    THEN [ok |-> TRUE, errorKey |-> "", errorArg |-> <<>>,
          lang |-> options.lang, help |-> options.help]
    ELSE
    LET rawArg == args[i]
        equalsIndex == IF StartsWith(rawArg, <<"-", "-">>) THEN IndexOf(rawArg, "=") ELSE 0
        hasInline == equalsIndex # 0
        optionToken == IF hasInline THEN SubSeq(rawArg, 1, equalsIndex - 1) ELSE rawArg
        inlineValue == SubSeq(rawArg, equalsIndex + 1, Len(rawArg))
        k == optionLookup(optionToken)
    IN  IF rawArg = <<>> THEN parseFrom(args, i + 1, options)
        ELSE IF k = 0 THEN ParseError("unknownOption", rawArg, options)
        ELSE IF ~CLI_OPTION_DEFINITIONS[k].expectsValue /\ hasInline
        THEN ParseError("unexpectedOptionValue", rawArg, options)
        ELSE
        LET takesNext == /\ CLI_OPTION_DEFINITIONS[k].expectsValue
                         /\ ~hasInline
                         /\ nextIsValue(args, i)
            value == IF hasInline THEN inlineValue
                     ELSE IF takesNext THEN args[i + 1] ELSE <<>>
            next == IF takesNext THEN i + 2 ELSE i + 1
        IN  IF CLI_OPTION_DEFINITIONS[k].expectsValue
            THEN IF value = <<>> THEN ParseError("missingLang", <<>>, options)
                 ELSE IF ~isLang(value) THEN ParseError("invalidLang", <<>>, options)
                 ELSE parseFrom(args, next, [options EXCEPT !.lang = value])
            ELSE parseFrom(args, next, [options EXCEPT !.help = TRUE])

parseCliOptions(args) == parseFrom(args, 1, [lang |-> DEFAULT_LANG, help |-> FALSE])

-----------------------------------------------------------------------------
(* Console lines                                                           *)

\* before any generator call has ended
NoReturn == [api |-> "", attempt |-> 0, threw |-> FALSE]

NoReason == [kind |-> "none", attempts |-> 0, detail |-> ""]

\* one console.log / console.error / console.warn
Line(stream, key, lang, text, reason) ==
    [stream |-> stream, key |-> key, lang |-> lang, text |-> text, reason |-> reason]

Localized(stream, key, lang) == Line(stream, key, lang, <<>>, NoReason)

\* a text printed as it is, in no language
Raw(stream, key, text) == Line(stream, key, <<>>, text, NoReason)

printHelp(lang) ==
    << Localized("out", "usageTitle", lang), Localized("out", "usageLine", lang),
       Raw("out", "blank", <<>>), Localized("out", "optionsTitle", lang),
       Localized("out", "optionLang", lang), Localized("out", "optionHelp", lang) >>

-----------------------------------------------------------------------------
(* Commit grammar validator (commit-message module)                        *)

LowerCase ==
    {"a", "b", "c", "d", "e", "f", "g", "h", "i", "j", "k", "l", "m",
     "n", "o", "p", "q", "r", "s", "t", "u", "v", "w", "x", "y", "z"}

UpperCase ==
    {"A", "B", "C", "D", "E", "F", "G", "H", "I", "J", "K", "L", "M",
     "N", "O", "P", "Q", "R", "S", "T", "U", "V", "W", "X", "Y", "Z"}

WordChars == LowerCase \cup UpperCase \cup {"_"}

CONVENTIONAL_TYPES ==
    { <<"b", "u", "i", "l", "d">>, <<"c", "h", "o", "r", "e">>, <<"c", "i">>,
      <<"d", "o", "c", "s">>, <<"f", "e", "a", "t">>, <<"f", "i", "x">>,
      <<"p", "e", "r", "f">>, <<"r", "e", "f", "a", "c", "t", "o", "r">>,
      <<"r", "e", "v", "e", "r", "t">>, <<"s", "t", "y", "l", "e">>,
      <<"t", "e", "s", "t">> }

\* length of the longest prefix of s made of word characters
WordPrefixLen(s) ==
    LET stop == {i \in 1..Len(s) : s[i] \notin WordChars}
    IN  IF stop = {} THEN Len(s)
        ELSE (CHOOSE i \in stop : \A j \in stop : i <= j) - 1

\* The rule set of the conventional configuration, applied to a one-line
\* header: the shape type(scope): subject or type: subject, the type
\* enumeration in lower case, and the header length limit.
lintCommitMessage(m) ==
    LET n == WordPrefixLen(m)
        type == SubSeq(m, 1, n)
        rest == SubSeq(m, n + 1, Len(m))
        close == IndexOf(rest, ")")
        afterScope == IF rest # <<>> /\ Head(rest) = "(" /\ close # 0
                      THEN SubSeq(rest, close + 1, Len(rest)) ELSE rest
        afterBang == IF afterScope # <<>> /\ Head(afterScope) = "!"
                     THEN Tail(afterScope) ELSE afterScope
        shaped == StartsWith(afterBang, <<":", SP>>) /\ Len(afterBang) > 2
    IN  (IF Len(m) > HEADER_MAX_LENGTH THEN <<"header-max-length">> ELSE <<>>)
        \o (IF ~shaped THEN <<"subject-empty", "type-empty">>
            ELSE IF type = <<>> THEN <<"type-empty">>
            ELSE (IF \E i \in 1..n : type[i] \in UpperCase THEN <<"type-case">> ELSE <<>>)
                 \o (IF type \notin CONVENTIONAL_TYPES THEN <<"type-enum">> ELSE <<>>))

\* hands the empty message to the rule set
validateWithoutEmptyCheck(m) == lintCommitMessage(m)

validateConventionalCommit(m) ==
    IF m = <<>> THEN <<"message is empty">> ELSE lintCommitMessage(m)

-----------------------------------------------------------------------------
(* Inputs of one run                                                       *)

RECURSIVE ListsUpTo(_, _)
ListsUpTo(S, n) ==
    IF n = 0 THEN {<<>>}
    ELSE LET shorter == ListsUpTo(S, n - 1)
         IN  shorter \cup {Append(l, x) : l \in shorter, x \in S}

MainArgs == {ArgHelp, ArgLang, ZH, ArgBad}

\* arguments of every form parseCliOptions tells apart
CliArgs ==
    { <<>>, ArgHelp, ArgShortHelp, ArgLang, ArgShortLang, ZH, FR, ArgBad,
      ArgLangZh, ArgLangFr, ArgLangNone, ArgHelpValue }

Undefined == "<undefined>"

Env(a, b, c) == [OPEN_AI_KEY |-> a, OPEN_AI_API_KEY |-> b, OPENAI_API_KEY |-> c]

MainEnvs ==
    { Env(Undefined, Undefined, Undefined), Env("", "sk-b", Undefined),
      Env(Undefined, "sk-b", "sk-c") }

Platforms == {"darwin", "win32", "linux", "freebsd"}

Fatal == <<"f", "a", "t", "a", "l">>

GitResult(ok, stdout, stderr) == [ok |-> ok, stdout |-> stdout, stderr |-> stderr]

NoResult == GitResult(FALSE, <<>>, <<>>)

RevParseResults ==
    { GitResult(TRUE, <<"t", "r", "u", "e", NL>>, <<>>),
      GitResult(TRUE, <<"f", "a", "l", "s", "e", NL>>, <<>>),
      GitResult(FALSE, <<"t", "r", "u", "e", NL>>, Fatal),
      GitResult(FALSE, <<>>, Fatal) }

StatusResults ==
    { GitResult(TRUE, <<>>, <<>>),
      GitResult(TRUE, <<SP, NL>>, <<>>),
      GitResult(TRUE, <<SP, "M", SP, "a", NL>>, <<>>),
      GitResult(FALSE, <<>>, <<>>),
      GitResult(FALSE, <<>>, Fatal) }

DiffResults ==
    { GitResult(TRUE, <<>>, <<>>),
      GitResult(TRUE, <<"+", "x", NL>>, <<>>),
      GitResult(FALSE, <<>>, Fatal) }

\* a diff of n characters
Fill(n) == [i \in 1..n |-> "x"]

\* diffs around the length that brings the assembled text to the limit
LongDiffResults ==
    DiffResults
    \cup {GitResult(TRUE, Fill(k), <<>>) : k \in {DiffFill - 1, DiffFill, DiffFill + 1}}

ValidHeader == <<"f", "i", "x", ":", SP, "a">>

\* what the generator may answer
RawOutputs ==
    { ValidHeader,
      <<DQ>> \o ValidHeader \o <<DQ>>,
      <<SP, BT, BT>> \o ValidHeader \o <<BT, NL>>,
      <<>>,
      <<SP, NL>>,
      <<"o", "o", "p", "s">>,
      ValidHeader \o [i \in 1..(LongFill - 1) |-> "a"],
      ValidHeader \o [i \in 1..LongFill |-> "a"] }

\* a responses or chat call throws, answers without text, or answers a text
CallOutcomes ==
    { [threw |-> TRUE, hasText |-> FALSE, text |-> <<>>],
      [threw |-> FALSE, hasText |-> FALSE, text |-> <<>>] }
    \cup { [threw |-> FALSE, hasText |-> TRUE, text |-> r] : r \in RawOutputs }

\* result of one clipboard command
CommandResults ==
    { [ok |-> TRUE, stderr |-> ""], [ok |-> FALSE, stderr |-> ""],
      [ok |-> FALSE, stderr |-> "cannot open display"] }

-----------------------------------------------------------------------------
(* main (main module), up to the call of generateCommitMessage             *)

fnVars == <<fnPc, fnIn, fnOut>>
\* what no step of main changes
inputs == <<argv, env, platform, fnVars>>
\* no function is being applied on its own
NoFunction == fnPc = "idle" /\ fnIn = <<>> /\ fnOut = <<>>
gitVars == <<checkRepo, status, stagedDiff, unstagedDiff, diffPayload>>
genVars == <<requestInput, requestMessages, attempt, candidate, issues,
             structured, calls, genError, inFlight, returned>>
endVars == <<message, clipboard>>

Init ==
    /\ argv \in ListsUpTo(MainArgs, MaxArgs)
    /\ env \in MainEnvs
    /\ platform \in Platforms
    /\ pc = "parse"
    /\ parsed = parseCliOptions(<<>>)
    /\ exitCode = Running
    /\ output = <<>>
    /\ spawned = <<>>
    /\ checkRepo = NoResult
    /\ status = NoResult
    /\ stagedDiff = NoResult
    /\ unstagedDiff = NoResult
    /\ diffPayload = <<>>
    /\ requestInput = <<>>
    /\ requestMessages = <<>>
    /\ attempt = 0
    /\ candidate = <<>>
    /\ issues = <<>>
    /\ structured = "none"
    /\ calls = <<>>
    /\ genError = NoReason
    /\ inFlight = {}
    /\ returned = NoReturn
    /\ message = <<>>
    /\ clipboard = <<>>
    /\ NoFunction

\* the language main prints in once the options are parsed
lang == parsed.lang

\* process.exit(code), or main returning
Exit(code) == pc' = "exited" /\ exitCode' = code

\* console.log / console.error / console.warn of some lines
Log(lines) == output' = output \o lines

RevParseArgs == <<"rev-parse", "--is-inside-work-tree">>
StatusArgs == <<"status", "--short">>
DiffCachedArgs == <<"diff", "--cached", "--no-color", "--no-ext-diff">>
DiffArgs == <<"diff", "--no-color", "--no-ext-diff">>

\* Bun.spawnSync(["git", ...args])
runGit(args) == spawned' = Append(spawned, [cmd |-> <<"git">> \o args, stdin |-> <<>>])

\* fails on an unknown option only
parseFailedUnknownOnly(p) == ~p.ok /\ p.errorKey = "unknownOption"

\* "error" in parsed
parseFailed(p) == ~p.ok

\* never prints the usage
helpRequestedNever(p) == FALSE

\* if (options.help)
helpRequested(p) == p.help

ParseArgs ==
    /\ pc = "parse"
    /\ parsed' = parseCliOptions(argv)
    /\ IF parseFailed(parsed')
       THEN /\ Log(<< Line("err", parsed'.errorKey, parsed'.lang, parsed'.errorArg, NoReason),
                        Localized("err", "useHelpHint", parsed'.lang) >>)
            /\ Exit(1)
       ELSE IF helpRequested(parsed')
       THEN Log(printHelp(parsed'.lang)) /\ Exit(0)
       ELSE pc' = "checkRepo" /\ UNCHANGED <<exitCode, output>>
    /\ UNCHANGED <<inputs, spawned, gitVars, genVars, endVars>>

\* !checkRepo.ok || checkRepo.stdout.trim() !== "true"
\* takes every answer of rev-parse for a work tree
repoAbsentNever(r) == FALSE

repoAbsent(r) == ~r.ok \/ Trim(r.stdout) # <<"t", "r", "u", "e">>

CheckRepo ==
    /\ pc = "checkRepo"
    /\ \E r \in RevParseResults :
        /\ runGit(RevParseArgs)
        /\ checkRepo' = r
        /\ IF repoAbsent(r)
           THEN Log(<<Localized("err", "notGitRepo", lang)>>) /\ Exit(1)
           ELSE pc' = "status" /\ UNCHANGED <<exitCode, output>>
    /\ UNCHANGED <<inputs, parsed, status, stagedDiff, unstagedDiff, diffPayload,
                   genVars, endVars>>

\* console.error(status.stderr || m.statusReadFail)
statusFailLine(r) ==
    IF r.stderr # <<>> THEN Raw("err", "stderr", r.stderr)
    ELSE Localized("err", "statusReadFail", lang)

\* the test without trim()
noChangesUntrimmed(r) == r.stdout = <<>>

\* !status.stdout.trim()
noChanges(r) == Trim(r.stdout) = <<>>

ReadStatus ==
    /\ pc = "status"
    /\ \E r \in StatusResults :
        /\ runGit(StatusArgs)
        /\ status' = r
        /\ IF ~r.ok
           THEN Log(<<statusFailLine(r)>>) /\ Exit(1)
           ELSE IF noChanges(r)
           THEN Log(<<Localized("out", "noChanges", lang)>>) /\ Exit(0)
           ELSE pc' = "stagedDiff" /\ UNCHANGED <<exitCode, output>>
    /\ UNCHANGED <<inputs, parsed, checkRepo, stagedDiff, unstagedDiff, diffPayload,
                   genVars, endVars>>

ReadStagedDiffFrom(results) ==
    /\ pc = "stagedDiff"
    /\ \E r \in results :
        /\ runGit(DiffCachedArgs)
        /\ stagedDiff' = r
    /\ pc' = "unstagedDiff"
    /\ UNCHANGED <<inputs, parsed, exitCode, output, checkRepo, status, unstagedDiff,
                   diffPayload, genVars, endVars>>

ReadStagedDiff == ReadStagedDiffFrom(DiffResults)

StatusHeader ==
    <<"#", "#", SP, "g", "i", "t", SP, "s", "t", "a", "t", "u", "s", SP,
      "-", "-", "s", "h", "o", "r", "t">>
CachedHeader ==
    <<"#", "#", SP, "g", "i", "t", SP, "d", "i", "f", "f", SP,
      "-", "-", "c", "a", "c", "h", "e", "d">>
DiffHeader == <<"#", "#", SP, "g", "i", "t", SP, "d", "i", "f", "f">>
EmptyMark == <<"(", "e", "m", "p", "t", "y", ")">>

\* the text main assembles from the three git outputs
assemblePayload(st, staged, unstaged) ==
    JoinLines(<< StatusHeader, Trim(st.stdout), <<>>,
                 CachedHeader, OrElse(Trim(staged.stdout), EmptyMark), <<>>,
                 DiffHeader, OrElse(Trim(unstaged.stdout), EmptyMark) >>)

\* tests the unstaged diff only
diffFailedUnstagedOnly(staged, unstaged) == ~unstaged.ok

\* !stagedDiff.ok || !unstagedDiff.ok
diffFailed(staged, unstaged) == ~staged.ok \/ ~unstaged.ok

ReadUnstagedDiffFrom(results) ==
    /\ pc = "unstagedDiff"
    /\ \E r \in results :
        /\ runGit(DiffArgs)
        /\ unstagedDiff' = r
        /\ IF diffFailed(stagedDiff, r)
           THEN /\ Log(<<Localized("err", "diffReadFail", lang)>>)
                /\ Exit(1)
                /\ UNCHANGED diffPayload
           ELSE /\ diffPayload' = truncate(assemblePayload(status, stagedDiff, r),
                                           DIFF_CHAR_LIMIT)
                /\ Log(<<Localized("out", "generating", lang)>>)
                /\ pc' = "generate"
                /\ UNCHANGED exitCode
    /\ UNCHANGED <<inputs, parsed, checkRepo, status, stagedDiff, genVars, endVars>>

ReadUnstagedDiff == ReadUnstagedDiffFrom(DiffResults)

-----------------------------------------------------------------------------
(* generateCommitMessage (commit-message module)                           *)

\* process.env.OPEN_AI_KEY ?? process.env.OPEN_AI_API_KEY ?? process.env.OPENAI_API_KEY
apiKey ==
    IF env.OPEN_AI_KEY # Undefined THEN env.OPEN_AI_KEY
    ELSE IF env.OPEN_AI_API_KEY # Undefined THEN env.OPEN_AI_API_KEY
    ELSE env.OPENAI_API_KEY

Content(kind, l, text, iss) == [kind |-> kind, lang |-> l, text |-> text, issues |-> iss]

Msg(role, content) == [role |-> role, content |-> content]

buildSystemPrompt(l) == Content("systemPrompt", l, <<>>, <<>>)

userPrompt(diffText) == Content("userPrompt", <<>>, diffText, <<>>)

\* the candidate as it is, empty or not
candidateWithoutPlaceholder(c) == c

\* candidate || "(empty)"
candidateOrPlaceholder(c) == OrElse(c, EmptyMark)

retryPrompt(c, iss) == Content("retryPrompt", <<>>, candidateOrPlaceholder(c), iss)

\* the two messages every history starts with
seedHistory(l, diffText) ==
    << Msg("system", buildSystemPrompt(l)), Msg("user", userPrompt(diffText)) >>

\* pushes the retry instruction without the assistant message
retryMessagesUserOnly(c, iss) == << Msg("user", retryPrompt(c, iss)) >>

\* the messages pushed after a rejected candidate
retryMessages(c, iss) ==
    << Msg("assistant", Content("candidate", <<>>, candidateOrPlaceholder(c), <<>>)),
       Msg("user", retryPrompt(c, iss)) >>

\* starts the history again from its two seed messages
inputAfterRetryReset(history, c, iss) == SubSeq(history, 1, 2) \o retryMessages(c, iss)

\* builds the system message again on a retry, in the default language
inputAfterRetryDefaultLang(history, c, iss) ==
    <<Msg("system", buildSystemPrompt(DEFAULT_LANG))>> \o Tail(history) \o retryMessages(c, iss)

\* the two requestInput.push after a rejected candidate
inputAfterRetry(history, c, iss) == history \o retryMessages(c, iss)

\* pushes the retry instruction only
messagesAfterRetryUserOnly(history, c, iss) == history \o <<Msg("user", retryPrompt(c, iss))>>

\* the two requestMessages.push after a rejected candidate
messagesAfterRetry(history, c, iss) == history \o retryMessages(c, iss)

Reason(kind, n, detail) == [kind |-> kind, attempts |-> n, detail |-> detail]

\* the catch without its process.exit(1): main goes on to the delivery
GenerationFailsNoExit(reason) ==
    /\ genError' = reason
    /\ output' = output \o <<[stream |-> "err", key |-> "generateFail", lang |-> parsed.lang,
                              text |-> <<>>, reason |-> reason]>>
    /\ pc' = "clipboard"
    /\ UNCHANGED exitCode

\* the catch of main around generateCommitMessage: report and exit 1
GenerationFails(reason) ==
    /\ genError' = reason
    /\ Log(<<Line("err", "generateFail", lang, <<>>, reason)>>)
    /\ Exit(1)

GenEnter ==
    /\ pc = "generate"
    /\ IF apiKey \in {Undefined, ""}
       THEN /\ GenerationFails(Reason("missingKey", 0, ""))
            /\ UNCHANGED <<requestInput, requestMessages, attempt>>
       ELSE /\ requestInput' = seedHistory(lang, diffPayload)
            /\ requestMessages' = seedHistory(lang, diffPayload)
            /\ attempt' = 0
            /\ pc' = "responses"
            /\ UNCHANGED <<exitCode, output, genError>>
    /\ UNCHANGED <<inputs, parsed, spawned, gitVars, candidate, issues,
                   structured, calls, inFlight, returned, endVars>>

Call(api) == [api |-> api, attempt |-> attempt, history |-> Len(requestInput)]

\* no fallback to the chat call
needsChatNever(c) == FALSE

\* the chat call made whatever the responses call gave
needsChatAlways(c) == TRUE

\* if (!candidate) after the responses call
needsChat(c) == c = <<>>

\* what a call that has ended is remembered by
Return(api, threw) == [api |-> api, attempt |-> attempt, threw |-> threw]

\* the exception of the chat call caught and dropped like that of the
\* responses call
chatThrowsNever(r) == FALSE

\* the chat call is awaited outside any try: its exception leaves the loop
chatThrows(r) == r.threw

\* goes on without waiting for the responses call
afterRequestWithoutAwait(api) == IF api = "responses" THEN "chat" ELSE "awaitChat"

\* await: the loop stands still until the call made returns or throws
afterRequest(api) == IF api = "responses" THEN "awaitResponses" ELSE "awaitChat"

\* client.responses.create(...) is called
StructuredCall ==
    /\ pc = "responses"
    /\ calls' = Append(calls, Call("responses"))
    /\ inFlight' = inFlight \cup {Call("responses")}
    /\ structured' = "pending"
    /\ pc' = afterRequest("responses")
    /\ UNCHANGED <<inputs, parsed, exitCode, output, spawned, gitVars,
                   requestInput, requestMessages, attempt, candidate, issues,
                   genError, returned, endVars>>

\* the responses call returns or throws; a throw is caught and dropped
StructuredReturn ==
    /\ pc = "awaitResponses"
    /\ \E r \in CallOutcomes :
        /\ candidate' = IF r.threw THEN <<>> ELSE cleanupModelMessage(r.text)
        /\ structured' = IF r.threw THEN "threw"
                         ELSE IF candidate' = <<>> THEN "empty" ELSE "text"
        /\ returned' = Return("responses", r.threw)
    /\ inFlight' = {c \in inFlight : c.api # "responses"}
    /\ pc' = IF needsChat(candidate') THEN "chat" ELSE "validate"
    /\ UNCHANGED <<inputs, parsed, exitCode, output, spawned, gitVars,
                   requestInput, requestMessages, attempt, issues, calls,
                   genError, endVars>>

\* client.chat.completions.create(...) is called
ChatCall ==
    /\ pc = "chat"
    /\ calls' = Append(calls, Call("chat"))
    /\ inFlight' = inFlight \cup {Call("chat")}
    /\ pc' = afterRequest("chat")
    /\ UNCHANGED <<inputs, parsed, exitCode, output, spawned, gitVars,
                   requestInput, requestMessages, attempt, candidate, issues,
                   structured, genError, returned, endVars>>

\* the chat call returns, or throws out of generateCommitMessage
ChatReturn ==
    /\ pc = "awaitChat"
    /\ \E r \in CallOutcomes :
        /\ returned' = Return("chat", r.threw)
        /\ IF chatThrows(r)
           THEN /\ GenerationFails(Reason("transport", 0, "chat"))
                /\ UNCHANGED candidate
           ELSE /\ candidate' = cleanupModelMessage(r.text)
                /\ pc' = "validate"
                /\ UNCHANGED <<exitCode, output, genError>>
    /\ inFlight' = {c \in inFlight : c.api # "chat"}
    /\ UNCHANGED <<inputs, parsed, spawned, gitVars, requestInput,
                   requestMessages, attempt, issues, structured, calls, endVars>>

\* accepts a candidate with one violation
acceptsOneIssue(iss) == Len(iss) <= 1

\* never accepts the candidate of the first attempt
acceptsAfterRetry(iss) == Len(iss) = 0 /\ attempt > 0

\* takes a length violation for no violation
acceptsIgnoringLength(iss) == \A i \in DOMAIN iss : iss[i] = "header-max-length"

\* if (issues.length === 0)
accepts(iss) == Len(iss) = 0

\* a loop without a bound
loopContinuesAlways(n) == TRUE

\* the loop condition with <= for <
loopContinuesInclusive(n) == n <= maxAttempts

\* the loop condition attempt < maxAttempts
loopContinues(n) == n < maxAttempts

Validate ==
    /\ pc = "validate"
    /\ issues' = validateConventionalCommit(candidate)
    /\ IF accepts(issues')
       THEN /\ message' = candidate
            /\ pc' = "clipboard"
            /\ UNCHANGED <<requestInput, requestMessages, attempt, exitCode,
                           output, genError>>
       ELSE /\ requestInput' = inputAfterRetry(requestInput, candidate, issues')
            /\ requestMessages' = messagesAfterRetry(requestMessages, candidate, issues')
            /\ attempt' = attempt + 1
            /\ IF loopContinues(attempt')
               THEN pc' = "responses" /\ UNCHANGED <<exitCode, output, genError>>
               ELSE GenerationFails(Reason("exhausted", maxAttempts, ""))
            /\ UNCHANGED message
    /\ UNCHANGED <<inputs, parsed, spawned, gitVars, candidate, structured,
                   calls, inFlight, returned, clipboard>>

-----------------------------------------------------------------------------
(* Delivery (main module and src/src/clipboard.ts)                         *)

GitCommitPrefix == <<"g", "i", "t", SP, "c", "o", "m", "m", "i", "t", SP, "-", "m", SP>>

\* the command main builds from the accepted message
suggestedCommand(msg) == GitCommitPrefix \o <<DQ>> \o shellEscapeDoubleQuoted(msg) \o <<DQ>>

Spawn(cmd, stdin) == [cmd |-> cmd, stdin |-> stdin]

Thrown(spawns, detail) == [spawns |-> spawns, ok |-> FALSE, detail |-> detail]

Copied(spawns) == [spawns |-> spawns, ok |-> TRUE, detail |-> ""]

\* a || b || c on error texts
FirstText(a, b, c) == IF a # "" THEN a ELSE IF b # "" THEN b ELSE c

\* on Linux, tries xclip before wl-copy
copyToClipboardXclipFirst(p, text, first, second) ==
    IF p = "darwin"
    THEN IF first.ok THEN Copied(<<Spawn(<<"pbcopy">>, text)>>)
         ELSE Thrown(<<Spawn(<<"pbcopy">>, text)>>, FirstText(first.stderr, "", "pbcopy failed"))
    ELSE IF p = "win32"
    THEN IF first.ok THEN Copied(<<Spawn(<<"clip">>, text)>>)
         ELSE Thrown(<<Spawn(<<"clip">>, text)>>, FirstText(first.stderr, "", "clip failed"))
    ELSE IF p = "linux"
    THEN IF first.ok THEN Copied(<<Spawn(<<"xclip", "-selection", "clipboard">>, text)>>)
         ELSE LET both == << Spawn(<<"xclip", "-selection", "clipboard">>, text),
                             Spawn(<<"wl-copy">>, text) >>
              IN  IF second.ok THEN Copied(both)
                  ELSE Thrown(both, FirstText(first.stderr, second.stderr,
                                              "No clipboard command available"))
    ELSE Thrown(<<>>, "Clipboard copy is not supported on platform")

\* copyToClipboard on platform p, the clipboard commands answering first and second
copyToClipboard(p, text, first, second) ==
    IF p = "darwin"
    THEN IF first.ok THEN Copied(<<Spawn(<<"pbcopy">>, text)>>)
         ELSE Thrown(<<Spawn(<<"pbcopy">>, text)>>, FirstText(first.stderr, "", "pbcopy failed"))
    ELSE IF p = "win32"
    THEN IF first.ok THEN Copied(<<Spawn(<<"clip">>, text)>>)
         ELSE Thrown(<<Spawn(<<"clip">>, text)>>, FirstText(first.stderr, "", "clip failed"))
    ELSE IF p = "linux"
    THEN IF first.ok THEN Copied(<<Spawn(<<"wl-copy">>, text)>>)
         ELSE LET both == << Spawn(<<"wl-copy">>, text),
                             Spawn(<<"xclip", "-selection", "clipboard">>, text) >>
              IN  IF second.ok THEN Copied(both)
                  ELSE Thrown(both, FirstText(first.stderr, second.stderr,
                                              "No clipboard command available"))
    ELSE Thrown(<<>>, "Clipboard copy is not supported on platform")

\* a clipboard failure that ends the process
clipboardFatal(r) ==
    /\ output' = output \o <<[stream |-> "err", key |-> "copyWarn", lang |-> parsed.lang,
                              text |-> <<>>, reason |-> Reason("clipboard", 0, r.detail)]>>
    /\ pc' = "exited"
    /\ exitCode' = 1

\* the catch of main around copyToClipboard: warn and go on
clipboardWarn(r) ==
    /\ Log(<<Line("warn", "copyWarn", lang, <<>>, Reason("clipboard", 0, r.detail))>>)
    /\ pc' = "print"
    /\ UNCHANGED exitCode

CopyToClipboard ==
    /\ pc = "clipboard"
    /\ \E first \in CommandResults, second \in CommandResults :
        LET r == copyToClipboard(platform, suggestedCommand(message), first, second)
        IN  /\ spawned' = spawned \o r.spawns
            /\ IF r.ok
               THEN /\ clipboard' = suggestedCommand(message)
                    /\ Log(<<Localized("out", "copied", lang)>>)
                    /\ pc' = "print"
                    /\ UNCHANGED exitCode
               ELSE clipboardWarn(r) /\ UNCHANGED clipboard
    /\ UNCHANGED <<inputs, parsed, gitVars, genVars, message>>

\* prints the suggestion and runs it
PrintSuggestionAndCommit ==
    /\ pc = "print"
    /\ Log(<< Localized("out", "command", lang),
              Raw("out", "commandText", suggestedCommand(message)) >>)
    /\ spawned' = Append(spawned, [cmd |-> <<"git", "commit", "-m">>, stdin |-> <<>>])
    /\ Exit(0)
    /\ UNCHANGED <<inputs, parsed, gitVars, genVars, endVars>>

PrintSuggestion ==
    /\ pc = "print"
    /\ Log(<< Localized("out", "command", lang),
              Raw("out", "commandText", suggestedCommand(message)) >>)
    /\ Exit(0)
    /\ UNCHANGED <<inputs, parsed, spawned, gitVars, genVars, endVars>>

-----------------------------------------------------------------------------

Next ==
    \/ ParseArgs
    \/ CheckRepo
    \/ ReadStatus
    \/ ReadStagedDiff
    \/ ReadUnstagedDiff
    \/ GenEnter
    \/ StructuredCall
    \/ StructuredReturn
    \/ ChatCall
    \/ ChatReturn
    \/ Validate
    \/ CopyToClipboard
    \/ PrintSuggestion

Spec == Init /\ [][Next]_vars

\* The steps of generateCommitMessage are taken when they can be, and every
\* generator call made returns or throws.
SpecFair ==
    /\ Spec
    /\ WF_vars(GenEnter)
    /\ WF_vars(StructuredCall)
    /\ WF_vars(StructuredReturn)
    /\ WF_vars(ChatCall)
    /\ WF_vars(ChatReturn)
    /\ WF_vars(Validate)

\* main started with argument lists of every form, on one platform
InitCli ==
    /\ argv \in ListsUpTo(CliArgs, MaxArgs)
    /\ env \in MainEnvs
    /\ platform = "linux"
    /\ pc = "parse"
    /\ parsed = parseCliOptions(<<>>)
    /\ exitCode = Running
    /\ output = <<>>
    /\ spawned = <<>>
    /\ checkRepo = NoResult
    /\ status = NoResult
    /\ stagedDiff = NoResult
    /\ unstagedDiff = NoResult
    /\ diffPayload = <<>>
    /\ requestInput = <<>>
    /\ requestMessages = <<>>
    /\ attempt = 0
    /\ candidate = <<>>
    /\ issues = <<>>
    /\ structured = "none"
    /\ calls = <<>>
    /\ genError = NoReason
    /\ inFlight = {}
    /\ returned = NoReturn
    /\ message = <<>>
    /\ clipboard = <<>>
    /\ NoFunction

SpecCli == InitCli /\ [][Next]_vars

\* main up to the entry of generateCommitMessage, with diffs of every length
\* around the limit
InitPayload ==
    /\ argv \in ListsUpTo(MainArgs, MaxArgs)
    /\ env \in MainEnvs
    /\ platform = "linux"
    /\ pc = "parse"
    /\ parsed = parseCliOptions(<<>>)
    /\ exitCode = Running
    /\ output = <<>>
    /\ spawned = <<>>
    /\ checkRepo = NoResult
    /\ status = NoResult
    /\ stagedDiff = NoResult
    /\ unstagedDiff = NoResult
    /\ diffPayload = <<>>
    /\ requestInput = <<>>
    /\ requestMessages = <<>>
    /\ attempt = 0
    /\ candidate = <<>>
    /\ issues = <<>>
    /\ structured = "none"
    /\ calls = <<>>
    /\ genError = NoReason
    /\ inFlight = {}
    /\ returned = NoReturn
    /\ message = <<>>
    /\ clipboard = <<>>
    /\ NoFunction

ReadLongStagedDiff == ReadStagedDiffFrom(LongDiffResults)

ReadLongUnstagedDiff == ReadUnstagedDiffFrom(LongDiffResults)

NextPayload ==
    \/ ParseArgs
    \/ CheckRepo
    \/ ReadStatus
    \/ ReadLongStagedDiff
    \/ ReadLongUnstagedDiff
    \/ GenEnter

SpecPayload == InitPayload /\ [][NextPayload]_vars

-----------------------------------------------------------------------------
(* Functions applied on their own                                          *)

mainVars == <<argv, env, platform, pc, parsed, exitCode, output, spawned,
              gitVars, genVars, endVars>>

\* main is not running
MainOff ==
    /\ argv = <<>>
    /\ env = Env(Undefined, Undefined, Undefined)
    /\ platform = "linux"
    /\ pc = "off"
    /\ parsed = parseCliOptions(<<>>)
    /\ exitCode = Running
    /\ output = <<>>
    /\ spawned = <<>>
    /\ checkRepo = NoResult
    /\ status = NoResult
    /\ stagedDiff = NoResult
    /\ unstagedDiff = NoResult
    /\ diffPayload = <<>>
    /\ requestInput = <<>>
    /\ requestMessages = <<>>
    /\ attempt = 0
    /\ candidate = <<>>
    /\ issues = <<>>
    /\ structured = "none"
    /\ calls = <<>>
    /\ genError = NoReason
    /\ inFlight = {}
    /\ returned = NoReturn
    /\ message = <<>>
    /\ clipboard = <<>>

TruncateTexts == ListsUpTo({"a", "b"}, MaxText)

InitTruncate ==
    /\ MainOff
    /\ fnPc = "ready"
    /\ fnIn \in [text : TruncateTexts, maxChars : 1..MaxLimit]
    /\ fnOut = <<>>

\* truncate(text, maxChars)
TruncateOnce ==
    /\ fnPc = "ready"
    /\ fnOut' = <<truncate(fnIn.text, fnIn.maxChars)>>
    /\ fnPc' = "once"
    /\ UNCHANGED <<mainVars, fnIn>>

\* truncate applied to its own result with the same limit
TruncateAgain ==
    /\ fnPc = "once"
    /\ fnOut' = Append(fnOut, truncate(fnOut[1], fnIn.maxChars))
    /\ fnPc' = "twice"
    /\ UNCHANGED <<mainVars, fnIn>>

NextTruncate == TruncateOnce \/ TruncateAgain

SpecTruncate == InitTruncate /\ [][NextTruncate]_vars

\* generator outputs: every short text of letters, whitespace, backticks
\* and double quotes, and a valid header in each wrapping
CleanupTexts ==
    ListsUpTo({"a", SP, NL, BT, DQ}, MaxRaw)
    \cup { <<DQ>> \o ValidHeader \o <<DQ>>,
           <<BT>> \o ValidHeader \o <<BT>>,
           <<BT, BT, BT>> \o ValidHeader \o <<BT, BT, BT>>,
           <<SP, BT, DQ>> \o ValidHeader \o <<DQ, BT, NL>>,
           <<DQ, BT>> \o ValidHeader \o <<BT, DQ>> }

InitCleanup ==
    /\ MainOff
    /\ fnPc = "ready"
    /\ fnIn \in [raw : CleanupTexts]
    /\ fnOut = <<>>

\* cleanupModelMessage(raw)
CleanupOnce ==
    /\ fnPc = "ready"
    /\ fnOut' = <<cleanupModelMessage(fnIn.raw)>>
    /\ fnPc' = "cleaned"
    /\ UNCHANGED <<mainVars, fnIn>>

\* cleanupModelMessage applied to its own result
CleanupAgain ==
    /\ fnPc = "cleaned"
    /\ fnOut' = Append(fnOut, cleanupModelMessage(fnOut[1]))
    /\ fnPc' = "cleanedTwice"
    /\ UNCHANGED <<mainVars, fnIn>>

NextCleanup == CleanupOnce \/ CleanupAgain

SpecCleanup == InitCleanup /\ [][NextCleanup]_vars

EscapeTexts == ListsUpTo({"a", BS, DQ, BT, DOLLAR}, MaxMessage)

InitCommand ==
    /\ MainOff
    /\ fnPc = "ready"
    /\ fnIn \in [message : EscapeTexts]
    /\ fnOut = <<>>

\* the command main builds from a message
BuildCommand ==
    /\ fnPc = "ready"
    /\ fnOut' = <<suggestedCommand(fnIn.message)>>
    /\ fnPc' = "built"
    /\ UNCHANGED <<mainVars, fnIn>>

NextCommand == BuildCommand

SpecCommand == InitCommand /\ [][NextCommand]_vars

ClipboardTexts == {suggestedCommand(m) : m \in {ValidHeader, <<"a", DQ>>, <<DOLLAR>>}}

InitClipboard ==
    /\ MainOff
    /\ fnPc = "ready"
    /\ fnIn \in [platform : Platforms, text : ClipboardTexts,
                  first : CommandResults, second : CommandResults]
    /\ fnOut = <<>>

\* copyToClipboard(text), the commands it runs answering first and second
CopyText ==
    /\ fnPc = "ready"
    /\ fnOut' = <<copyToClipboard(fnIn.platform, fnIn.text, fnIn.first, fnIn.second)>>
    /\ fnPc' = "copied"
    /\ UNCHANGED <<mainVars, fnIn>>

NextClipboard == CopyText

SpecClipboard == InitClipboard /\ [][NextClipboard]_vars

\* the characters of a status code: blank, the two sentinels, the seven
\* kinds and one letter that is no kind
StatusChars == {SP, "?", "!", "A", "M", "D", "R", "C", "U", "T", "X"}

StatusCodes == {<<x, y>> : x \in StatusChars, y \in StatusChars}

preferredOrder == <<"A", "M", "D", "R", "C", "U", "T">>

\* without the tests for the two sentinel codes
statusKindsWithoutSentinels(code) ==
    LET chars == {code[i] : i \in {j \in DOMAIN code : code[j] # SP}}
        includes(kind) == kind \in chars
        kinds == SelectSeq(preferredOrder, includes)
    IN  IF Len(kinds) > 0 THEN kinds ELSE <<"other">>

\* collects the kinds in the order of the characters of the code
statusKindsInCodeOrder(code) ==
    LET isKind(c) == \E k \in DOMAIN preferredOrder : preferredOrder[k] = c
        kinds == SelectSeq(code, isKind)
        once == IF Len(kinds) = 2 /\ kinds[1] = kinds[2] THEN <<kinds[1]>> ELSE kinds
    IN  IF code = <<"?", "?">> THEN <<"?">>
        ELSE IF code = <<"!", "!">> THEN <<"!">>
        ELSE IF Len(once) > 0 THEN once ELSE <<"other">>

statusKindsFromCode(code) ==
    IF code = <<"?", "?">> THEN <<"?">>
    ELSE IF code = <<"!", "!">> THEN <<"!">>
    ELSE LET chars == {code[i] : i \in {j \in DOMAIN code : code[j] # SP}}
             includes(kind) == kind \in chars
             kinds == SelectSeq(preferredOrder, includes)
         IN  IF Len(kinds) > 0 THEN kinds ELSE <<"other">>

InitStatusKinds ==
    /\ MainOff
    /\ fnPc = "ready"
    /\ fnIn \in [code : StatusCodes]
    /\ fnOut = <<>>

\* statusKindsFromCode(code)
ClassifyCode ==
    /\ fnPc = "ready"
    /\ fnOut' = <<statusKindsFromCode(fnIn.code)>>
    /\ fnPc' = "classified"
    /\ UNCHANGED <<mainVars, fnIn>>

priority == <<"D", "U", "M", "A", "R", "C", "T", "?", "!", "other">>

\* index of the first kind of order that is among kinds, 0 when none is
FirstIncluded(order, kinds) ==
    LET hits == {n \in DOMAIN order : \E i \in DOMAIN kinds : kinds[i] = order[n]}
    IN  IF hits = {} THEN 0 ELSE CHOOSE n \in hits : \A m \in hits : n <= m

\* scans the order of statusKindsFromCode instead of the priority order
detectStatusKindInPreferredOrder(code) ==
    LET kinds == statusKindsFromCode(code)
        order == preferredOrder \o <<"?", "!", "other">>
        n == FirstIncluded(order, kinds)
    IN  IF n # 0 THEN order[n] ELSE "other"

detectStatusKind(code) ==
    LET kinds == statusKindsFromCode(code)
        n == FirstIncluded(priority, kinds)
    IN  IF n # 0 THEN priority[n] ELSE "other"

\* detectStatusKind(code)
DetectKind ==
    /\ fnPc = "classified"
    /\ fnOut' = Append(fnOut, detectStatusKind(fnIn.code))
    /\ fnPc' = "detected"
    /\ UNCHANGED <<mainVars, fnIn>>

NextStatusKinds == ClassifyCode \/ DetectKind

SpecStatusKinds == InitStatusKinds /\ [][NextStatusKinds]_vars

-----------------------------------------------------------------------------
(* Properties                                                              *)

ResponsesCalls == {i \in DOMAIN calls : calls[i].api = "responses"}

ChatCalls == {i \in DOMAIN calls : calls[i].api = "chat"}

\* one generator invocation per attempt: it starts with the responses call
Invocations == Cardinality(ResponsesCalls)

LastCall == calls[Len(calls)]

LastLine == output[Len(output)]

Printed(key) == \E i \in DOMAIN output : output[i].key = key

RanGit(args) == \E i \in DOMAIN spawned : spawned[i].cmd = <<"git">> \o args

ClipboardSpawns == {i \in DOMAIN spawned : spawned[i].cmd[1] # "git"}

\* generateCommitMessage has returned a message to main
Accepted ==
    \/ pc \in {"clipboard", "print"}
    \/ pc = "exited" /\ calls # <<>> /\ genError.kind = "none"

\* the last validated candidate was rejected
Rejected == (pc = "responses" /\ attempt > 0) \/ genError.kind = "exhausted"

Exhausted == genError.kind = "exhausted"

\* C1: with every attempt rejected the loop raises the exhaustion error,
\* naming 3 attempts, after exactly 3 generator invocations; no run makes a
\* 4th invocation.
C1_ExhaustionAfterThreeInvocations ==
    /\ Invocations <= 3
    /\ Cardinality(ChatCalls) <= 3
    /\ attempt <= 3
    /\ (attempt = 3) <=> Exhausted
    /\ Exhausted =>
        /\ Invocations = 3
        /\ genError.attempts = 3
        /\ pc = "exited"
        /\ LastLine = Line("err", "generateFail", lang, <<>>, Reason("exhausted", 3, ""))

C1_Witness == Exhausted /\ Invocations = 3 /\ ChatCalls = {}

\* C2: a candidate is returned exactly when the validator finds no
\* violation in it: a returned message has none, and a candidate that ended
\* in a retry or in exhaustion has at least one.
C2_AcceptedIffNoViolations ==
    /\ Accepted => message = candidate /\ validateConventionalCommit(message) = <<>>
    /\ Rejected => validateConventionalCommit(candidate) # <<>> /\ message = <<>>
    /\ pc \in {"responses", "chat", "validate"} => message = <<>>

C2_Witness == pc = "clipboard" /\ message = ValidHeader /\ attempt = 1

\* C3: the history holds 2 messages more after each failed attempt, at every
\* generator call; a run rejected on attempts 1 and 2 and accepted on
\* attempt 3 returns that candidate after exactly 3 invocations.
C3_TwoMessagesPerFailedAttempt ==
    /\ requestInput # <<>> =>
        /\ Len(requestInput) = 2 + 2 * attempt
        /\ Len(requestMessages) = 2 + 2 * attempt
    /\ \A i \in DOMAIN calls : calls[i].history = 2 + 2 * calls[i].attempt
    /\ Accepted /\ attempt = 2 =>
        /\ Invocations = 3
        /\ message = candidate
        /\ validateConventionalCommit(message) = <<>>
        /\ Len(requestInput) = 6

C3_Witness ==
    /\ pc = "clipboard" /\ attempt = 2 /\ Invocations = 3
    /\ message = ValidHeader /\ Len(requestInput) = 6

\* C4: a candidate without violations is returned at once, in whatever
\* attempt, and after that no generator call is made and nothing is appended
\* to either history.
C4_AcceptedReturnsImmediately ==
    /\ [][(pc = "validate" /\ validateConventionalCommit(candidate) = <<>>) =>
            /\ pc' = "clipboard"
            /\ message' = candidate
            /\ attempt' = attempt]_vars
    /\ [][(Accepted \/ Accepted') =>
            /\ calls' = calls
            /\ requestInput' = requestInput
            /\ requestMessages' = requestMessages]_vars

C4_Witness == pc = "exited" /\ Accepted /\ attempt = 1 /\ Len(calls) = 3

\* C5: every attempt starts with the responses call; when that call throws
\* or gives no text the chat call follows in the same attempt and the run
\* goes on; validation gets one candidate, empty only when the chat call was
\* made too.
C5_StructuredFirstThenChat ==
    /\ \A i \in DOMAIN calls :
        /\ calls[i].api = "chat" =>
              i > 1 /\ calls[i - 1].api = "responses"
                    /\ calls[i - 1].attempt = calls[i].attempt
        /\ calls[i].api = "responses" =>
              calls[i].attempt = Cardinality({j \in ResponsesCalls : j < i})
    /\ (calls # <<>> /\ LastCall.api = "responses" /\ structured \in {"threw", "empty"}) =>
        /\ pc = "chat"
        /\ exitCode = Running
        /\ genError = NoReason
        /\ LastCall.attempt = attempt
    /\ pc = "validate" =>
        \/ structured = "text" /\ LastCall.api = "responses" /\ candidate # <<>>
        \/ structured \in {"threw", "empty"} /\ LastCall.api = "chat"
                                            /\ LastCall.attempt = attempt

C5_Witness ==
    pc = "validate" /\ structured = "threw" /\ candidate = <<>> /\ attempt = 1

\* C6: when the attempt budget is exhausted main exits with status 1: the
\* loop is not started again, nothing is written to the clipboard and no
\* command is printed.
C6_ExhaustionExitsOne ==
    Exhausted =>
        /\ pc = "exited"
        /\ exitCode = 1
        /\ Cardinality({i \in ResponsesCalls : calls[i].attempt = 0}) = 1
        /\ clipboard = <<>>
        /\ ClipboardSpawns = {}
        /\ ~Printed("command") /\ ~Printed("commandText") /\ ~Printed("copied")
        /\ LastLine.key = "generateFail" /\ LastLine.stream = "err"

C6_Witness == Exhausted /\ exitCode = 1 /\ Cardinality(ChatCalls) = 3

\* C7: when git status succeeds with an output that is empty once trimmed,
\* main prints "no changes" and ends with status 0, having run no diff, no
\* generator call and no clipboard command.
C7_NoChangesShortCircuit ==
    (status.ok /\ Trim(status.stdout) = <<>>) =>
        /\ pc = "exited"
        /\ exitCode = 0
        /\ LastLine = Localized("out", "noChanges", lang)
        /\ ~RanGit(DiffCachedArgs) /\ ~RanGit(DiffArgs)
        /\ Len(spawned) = 2
        /\ calls = <<>>
        /\ requestInput = <<>>
        /\ clipboard = <<>>

C7_Witness == status.ok /\ status.stdout = <<>> /\ pc = "exited" /\ exitCode = 0

RepoAbsence ==
    RanGit(RevParseArgs) /\ (~checkRepo.ok \/ Trim(checkRepo.stdout) # <<"t", "r", "u", "e">>)

StatusReadFailure == RanGit(StatusArgs) /\ ~status.ok

DiffReadFailure == RanGit(DiffArgs) /\ (~stagedDiff.ok \/ ~unstagedDiff.ok)

\* exit 1, no generator call and no clipboard write
FailsBeforeGeneration ==
    /\ pc = "exited"
    /\ exitCode = 1
    /\ LastLine.stream = "err"
    /\ calls = <<>>
    /\ requestInput = <<>>
    /\ clipboard = <<>>
    /\ ClipboardSpawns = {}

\* C8 as stated: repository absence, a status-read failure and a diff-read
\* failure each end main with status 1 and a localized error, with no
\* generator call and no clipboard write.
C8_LocalizedErrorAsStated ==
    /\ RepoAbsence =>
        FailsBeforeGeneration /\ LastLine = Localized("err", "notGitRepo", lang)
    /\ StatusReadFailure =>
        FailsBeforeGeneration /\ LastLine = Localized("err", "statusReadFail", lang)
    /\ DiffReadFailure =>
        FailsBeforeGeneration /\ LastLine = Localized("err", "diffReadFail", lang)

\* C8, amended: the same, except that a status-read failure prints the
\* standard error text of git when there is one, and the localized message
\* only when there is none.
C8_ErrorExitBeforeGeneration ==
    /\ RepoAbsence =>
        FailsBeforeGeneration /\ LastLine = Localized("err", "notGitRepo", lang)
    /\ StatusReadFailure =>
        /\ FailsBeforeGeneration
        /\ LastLine = IF status.stderr # <<>> THEN Raw("err", "stderr", status.stderr)
                      ELSE Localized("err", "statusReadFail", lang)
    /\ DiffReadFailure =>
        FailsBeforeGeneration /\ LastLine = Localized("err", "diffReadFail", lang)

C8_Witness ==
    /\ DiffReadFailure /\ ~stagedDiff.ok /\ unstagedDiff.ok
    /\ pc = "exited" /\ exitCode = 1

ClipboardTried == Printed("copied") \/ Printed("copyWarn")

\* C9: a failed clipboard write is printed as a warning and the process does
\* not fail: once a message is accepted the run ends with status 0 and the
\* suggested command as its last line, whether the write succeeded or not.
C9_ClipboardFailureIsWarning ==
    /\ \A i \in DOMAIN output :
        output[i].key = "copyWarn" => output[i].stream = "warn" /\ exitCode \in {Running, 0}
    /\ pc = "print" =>
        /\ exitCode = Running
        /\ LastLine.key \in {"copied", "copyWarn"}
        /\ (LastLine.key = "copied") <=> (clipboard = suggestedCommand(message))
        /\ platform \notin {"darwin", "win32", "linux"} =>
              LastLine.key = "copyWarn" /\ ClipboardSpawns = {}
    /\ (pc = "exited" /\ Accepted) =>
        /\ ClipboardTried
        /\ exitCode = 0
        /\ LastLine = Raw("out", "commandText", suggestedCommand(message))

C9_Witness ==
    /\ pc = "exited" /\ Printed("copyWarn") /\ platform = "linux"
    /\ Printed("commandText") /\ clipboard = <<>>

\* C10: git commit is never run: the git subcommands spawned are rev-parse,
\* status and diff only, every other process is a clipboard command fed the
\* suggested command, and the command is otherwise only printed.
C10_CommitNeverExecuted ==
    \A i \in DOMAIN spawned :
        IF spawned[i].cmd[1] = "git"
        THEN /\ spawned[i].cmd[2] \in {"rev-parse", "status", "diff"}
             /\ spawned[i].cmd \in {<<"git">> \o RevParseArgs, <<"git">> \o StatusArgs,
                                    <<"git">> \o DiffCachedArgs, <<"git">> \o DiffArgs}
             /\ spawned[i].stdin = <<>>
        ELSE /\ spawned[i].cmd[1] \in {"pbcopy", "clip", "wl-copy", "xclip"}
             /\ spawned[i].stdin = suggestedCommand(message)
             /\ Accepted

C10_Witness ==
    /\ pc = "exited" /\ Printed("commandText") /\ Printed("copied")
    /\ Len(spawned) = 6

IsPrefix(s, t) == Len(s) <= Len(t) /\ SubSeq(t, 1, Len(s)) = s

\* C15: within one run of generateCommitMessage the history is only
\* appended to: no step makes it shorter, and every message in it keeps its
\* position, role and content in every later state.
C15_HistoryAppendOnly ==
    [][/\ IsPrefix(requestInput, requestInput')
       /\ IsPrefix(requestMessages, requestMessages')
       /\ \A i \in DOMAIN requestInput :
            /\ requestInput'[i].role = requestInput[i].role
            /\ requestInput'[i].content = requestInput[i].content]_vars

C15_Witness ==
    /\ Len(requestInput) = 6 /\ pc = "responses"
    /\ requestInput[3].role = "assistant" /\ requestInput[5].role = "assistant"
    /\ requestInput[3].content.text = EmptyMark
    /\ requestInput[5].content.text = <<"o", "o", "p", "s">>

\* C16: the history of the responses call and the history of the chat call
\* hold the same roles and contents in the same order whenever a generator
\* call is made, in every attempt.
C16_HistoriesInParallel ==
    /\ Len(requestInput) = Len(requestMessages)
    /\ \A i \in DOMAIN requestInput :
        /\ requestInput[i].role = requestMessages[i].role
        /\ requestInput[i].content = requestMessages[i].content
    /\ pc \in {"responses", "chat", "validate"} =>
        /\ Len(requestMessages) = 2 + 2 * attempt
        /\ requestMessages[1].role = "system"
        /\ \A i \in 2..Len(requestMessages) :
              requestMessages[i].role = (IF i % 2 = 0 THEN "user" ELSE "assistant")

C16_Witness ==
    /\ pc = "chat" /\ attempt = 2 /\ Len(requestMessages) = 6
    /\ requestMessages[5].content.text = EmptyMark
    /\ requestMessages = requestInput

\* C17: the validator answers the empty message with the one violation
\* "message is empty": an attempt whose cleaned candidate is empty is not
\* accepted and uses up one attempt of the budget.
C17_EmptyCandidateRejected ==
    /\ [][(pc = "validate" /\ candidate = <<>>) =>
            /\ issues' = <<"message is empty">>
            /\ attempt' = attempt + 1
            /\ message' = <<>>
            /\ pc' = (IF attempt + 1 < 3 THEN "responses" ELSE "exited")]_vars
    /\ [](Accepted => message # <<>>)

C17_Witness ==
    /\ pc = "responses" /\ attempt = 2 /\ candidate = <<>>
    /\ issues = <<"message is empty">>
    /\ requestInput[5].content.text = EmptyMark

\* the candidate of the last validation is still in candidate
Validated == pc \in {"responses", "clipboard", "print", "exited"} /\ calls # <<>>
                /\ genError.kind # "transport"

\* C18: a header longer than the maximum header length (100) gets a length
\* violation from the validator and is rejected, so no message returned by
\* generateCommitMessage is longer than that.
C18_LongHeaderRejected ==
    /\ (Validated /\ Len(candidate) > HEADER_MAX_LENGTH) =>
        /\ \E i \in DOMAIN issues : issues[i] = "header-max-length"
        /\ message = <<>>
        /\ Rejected
    /\ Accepted => Len(message) <= HEADER_MAX_LENGTH

C18_Witness ==
    /\ Exhausted /\ Len(candidate) = HEADER_MAX_LENGTH + 1
    /\ issues = <<"header-max-length">>

\* a header of exactly the maximum length is returned
C18_WitnessAtLimit == Accepted /\ Len(message) = HEADER_MAX_LENGTH

\* C24: the loop runs one step at a time: at most one generator call is in
\* flight, nothing is validated while one is, and the responses call of an
\* attempt after the first is made only when the candidate of the attempt
\* before has been validated and rejected.
C24_LoopIsSequential ==
    /\ [](Cardinality(inFlight) <= 1)
    /\ [](inFlight # {} <=> pc \in {"awaitResponses", "awaitChat"})
    /\ [][calls' # calls =>
            /\ inFlight = {}
            /\ calls' = Append(calls, LastCall')
            /\ LastCall'.attempt = attempt
            /\ (LastCall'.api = "responses" /\ attempt > 0) =>
                  /\ issues = validateConventionalCommit(candidate)
                  /\ issues # <<>>
                  /\ Len(requestInput) = 2 + 2 * attempt
                  /\ requestInput[Len(requestInput)].content.issues = issues
                  /\ Cardinality({i \in ResponsesCalls : calls[i].attempt = attempt - 1}) = 1]_vars
    /\ [][(pc = "validate" \/ pc' = "validate") => inFlight' = {}]_vars

C24_Witness ==
    /\ pc = "awaitResponses" /\ attempt = 2 /\ Cardinality(inFlight) = 1
    /\ Len(calls) = 5 /\ issues = <<"header-max-length">>

\* C25: the system message built at the entry of the loop, in the language
\* given to generateCommitMessage, is the first message of both histories at
\* every generator call of the run; no retry replaces or changes it.
C25_LanguageFixedForLoop ==
    /\ [](requestInput # <<>> =>
            /\ requestInput[1] = Msg("system", buildSystemPrompt(lang))
            /\ requestMessages[1] = Msg("system", buildSystemPrompt(lang))
            /\ requestInput[1].content.lang \in {EN, ZH}
            /\ \A i \in 2..Len(requestInput) : requestInput[i].role # "system")
    /\ [][requestInput # <<>> =>
            /\ requestInput'[1] = requestInput[1]
            /\ requestMessages'[1] = requestMessages[1]
            /\ parsed' = parsed]_vars
    /\ [][calls' # calls => requestInput[1].content.lang = lang]_vars

C25_Witness ==
    /\ pc = "awaitChat" /\ attempt = 2 /\ Len(requestMessages) = 6
    /\ requestMessages[1].content.lang = ZH

\* generateCommitMessage has been entered
LoopEntered == pc \in {"generate", "responses", "awaitResponses", "chat", "awaitChat", "validate"}

\* generateCommitMessage has ended with an error
Failed == genError.kind \in {"missingKey", "transport", "exhausted"}

\* C26: when every generator call returns or throws, generateCommitMessage
\* ends, either with an accepted candidate, or with the exhaustion error
\* after the third failed attempt, or with an error raised before or during
\* an attempt, and with one of them only; the attempt counter never goes
\* down and never passes 3.
C26_LoopTerminates ==
    /\ LoopEntered ~> (Accepted \/ Failed)
    /\ [](~(Accepted /\ Failed))
    /\ []((Accepted \/ Failed) => ~LoopEntered /\ inFlight = {})
    /\ [](Exhausted => attempt = 3 /\ Invocations = 3)
    /\ [](attempt \in 0..3)
    /\ [][attempt' >= attempt]_vars
    /\ [][(Accepted \/ Failed) =>
            /\ (Accepted' <=> Accepted)
            /\ genError' = genError
            /\ attempt' = attempt]_vars

C26_Witness ==
    /\ genError.kind = "transport" /\ attempt = 2 /\ pc = "exited"
    /\ Len(calls) = 5

\* an environment variable holds a key: it is set and not empty
HoldsKey(v) == v \notin {Undefined, ""}

\* the key of the first variable that holds one, in the order of the lookup
FirstKeyHeld ==
    IF HoldsKey(env.OPEN_AI_KEY) THEN env.OPEN_AI_KEY
    ELSE IF HoldsKey(env.OPEN_AI_API_KEY) THEN env.OPEN_AI_API_KEY
    ELSE env.OPENAI_API_KEY

\* generateCommitMessage has been entered and has read the key
KeyRead == requestInput # <<>> \/ genError.kind = "missingKey"

\* C28: when one of OPEN_AI_KEY, OPEN_AI_API_KEY, OPENAI_API_KEY holds a
\* key, generation goes on with the key of the first that holds one, in that
\* order; when none does, generateCommitMessage fails before any generator
\* call.
C28_KeyByPriority ==
    KeyRead =>
        IF HoldsKey(FirstKeyHeld)
        THEN genError.kind # "missingKey" /\ requestInput # <<>> /\ apiKey = FirstKeyHeld
        ELSE genError.kind = "missingKey" /\ calls = <<>> /\ exitCode = 1

\* the candidate, or the placeholder when it is empty
Shown(c) == IF c = <<>> THEN <<"(", "e", "m", "p", "t", "y", ")">> ELSE c

\* C29: a failed attempt appends two messages, the assistant message with
\* the rejected candidate ("(empty)" for an empty one), then the user retry
\* instruction with that text and the violations; so at every generator call
\* the history is system, user and then (assistant, user) pairs, 2 + 2 *
\* (failed attempts) long, and ends with a user message.
C29_RetryAppendsAssistantThenUser ==
    /\ [][(requestInput # <<>> /\ requestInput' # requestInput) =>
            /\ pc = "validate"
            /\ attempt' = attempt + 1
            /\ Len(requestInput') = Len(requestInput) + 2
            /\ SubSeq(requestInput', 1, Len(requestInput)) = requestInput
            /\ LET a == requestInput'[Len(requestInput) + 1]
                   u == requestInput'[Len(requestInput) + 2]
               IN  /\ a.role = "assistant"
                   /\ a.content.kind = "candidate"
                   /\ a.content.text = Shown(candidate)
                   /\ u.role = "user"
                   /\ u.content.kind = "retryPrompt"
                   /\ u.content.text = Shown(candidate)
                   /\ u.content.issues = validateConventionalCommit(candidate)
                   /\ u.content.issues # <<>>]_vars
    /\ [][calls' # calls =>
            /\ Len(requestInput) = 2 + 2 * attempt
            /\ requestInput[1].role = "system"
            /\ requestInput[2].role = "user"
            /\ \A k \in 1..attempt :
                  /\ requestInput[2 * k + 1].role = "assistant"
                  /\ requestInput[2 * k + 2].role = "user"
            /\ requestInput[Len(requestInput)].role = "user"
            /\ requestMessages = requestInput]_vars

C29_Witness ==
    /\ pc = "awaitResponses" /\ attempt = 2
    /\ requestInput[3].content.text = <<"o", "o", "p", "s">>
    /\ requestInput[5].content.text = <<"(", "e", "m", "p", "t", "y", ")">>
    /\ requestInput[6].content.issues = <<"message is empty">>

\* C30: the exception of the responses call is dropped and the run goes on
\* to the chat call; the exception of the chat call ends
\* generateCommitMessage at once, in whatever attempt: no further call, no
\* further attempt, nothing appended to the history; main prints the
\* generation failure and exits 1.
C30_ChatExceptionEndsLoop ==
    /\ (returned.api = "chat" /\ returned.threw) =>
        /\ genError = Reason("transport", 0, "chat")
        /\ pc = "exited"
        /\ exitCode = 1
        /\ inFlight = {}
        /\ LastCall = [api |-> "chat", attempt |-> returned.attempt,
                       history |-> 2 + 2 * returned.attempt]
        /\ attempt = returned.attempt
        /\ Len(requestInput) = 2 + 2 * attempt
        /\ Len(requestMessages) = 2 + 2 * attempt
        /\ message = <<>>
        /\ clipboard = <<>>
        /\ ClipboardSpawns = {}
        /\ LastLine = Line("err", "generateFail", lang, <<>>, genError)
    /\ (returned.api = "responses" /\ returned.threw) =>
        /\ pc \in {"chat", "awaitChat"}
        /\ exitCode = Running
        /\ genError = NoReason
        /\ attempt = returned.attempt

C30_Witness ==
    /\ returned = [api |-> "chat", attempt |-> 1, threw |-> TRUE]
    /\ structured = "threw"
    /\ Len(calls) = 4
    /\ pc = "exited" /\ exitCode = 1 /\ Len(requestInput) = 4

CallsIn(api, a) == {i \in DOMAIN calls : calls[i].api = api /\ calls[i].attempt = a}

\* C31: every attempt makes the responses call exactly once and the chat call
\* at most once; the chat call is made exactly when the responses call threw
\* or gave an empty cleaned text; a non-empty candidate of the responses call
\* is never replaced; a run makes at most 3 calls of each kind.
C31_CallsPerAttempt ==
    /\ [](/\ \A a \in 0..(maxAttempts - 1) :
              /\ Cardinality(CallsIn("responses", a)) =
                    IF calls # <<>> /\ a <= LastCall.attempt THEN 1 ELSE 0
              /\ Cardinality(CallsIn("chat", a)) <= 1
          /\ \A i \in DOMAIN calls : calls[i].attempt \in 0..(maxAttempts - 1)
          /\ Cardinality({i \in DOMAIN calls : calls[i].api = "responses"}) <= maxAttempts
          /\ Cardinality({i \in DOMAIN calls : calls[i].api = "chat"}) <= maxAttempts
          /\ pc = "validate" =>
                (CallsIn("chat", attempt) # {} <=> structured \in {"threw", "empty"}))
    /\ [][pc = "awaitResponses" =>
            /\ (structured' \in {"threw", "empty"} <=> pc' = "chat")
            /\ (structured' = "text" <=> pc' = "validate")
            /\ structured' = "text" => candidate' # <<>>]_vars
    /\ [][(calls' # calls /\ LastCall'.api = "chat") =>
            candidate = <<>> /\ structured \in {"threw", "empty"}]_vars
    /\ [][structured = "text" => candidate' = candidate]_vars

C31_Witness ==
    /\ Len(calls) = 5 /\ pc = "validate" /\ attempt = 2
    /\ Cardinality({i \in DOMAIN calls : calls[i].api = "responses"}) = 3
    /\ Cardinality({i \in DOMAIN calls : calls[i].api = "chat"}) = 2
    /\ structured = "text" /\ CallsIn("chat", 2) = {}

\* the place of a position of main in the order of its steps
MainStep(p) ==
    CASE p = "parse" -> 1
      [] p = "checkRepo" -> 2
      [] p = "status" -> 3
      [] p = "stagedDiff" -> 4
      [] p = "unstagedDiff" -> 5
      [] p \in {"generate", "responses", "awaitResponses", "chat", "awaitChat",
                "validate"} -> 6
      [] p = "clipboard" -> 7
      [] p = "print" -> 8
      [] p = "exited" -> 9

GeneratorInvoked == requestInput # <<>> \/ calls # <<>> \/ genError.kind # "none"

\* C32: main's steps run in one order; the generator is invoked only after
\* the repository check, the status query and both diff queries succeeded
\* with a non-empty status; the clipboard is written only after the loop has
\* accepted a message; the text written is the command that is printed.
C32_StepsInOrder ==
    /\ [][pc' # pc => MainStep(pc') >= MainStep(pc)
                      /\ (MainStep(pc') > MainStep(pc) \/ MainStep(pc) = 6)
                      /\ (MainStep(pc') \in {MainStep(pc), MainStep(pc) + 1}
                            \/ pc' = "exited")]_vars
    /\ [](GeneratorInvoked =>
            /\ Len(spawned) >= 4
            /\ spawned[1].cmd = <<"git">> \o RevParseArgs
            /\ spawned[2].cmd = <<"git">> \o StatusArgs
            /\ spawned[3].cmd = <<"git">> \o DiffCachedArgs
            /\ spawned[4].cmd = <<"git">> \o DiffArgs
            /\ checkRepo.ok /\ Trim(checkRepo.stdout) = <<"t", "r", "u", "e">>
            /\ status.ok /\ Trim(status.stdout) # <<>>
            /\ stagedDiff.ok /\ unstagedDiff.ok
            /\ diffPayload # <<>>)
    /\ []((ClipboardSpawns # {} \/ clipboard # <<>>) =>
            /\ GeneratorInvoked
            /\ genError.kind = "none"
            /\ message # <<>>
            /\ message = candidate
            /\ validateConventionalCommit(message) = <<>>
            /\ MainStep(pc) >= 7
            /\ \A i \in ClipboardSpawns : i > 4 /\ spawned[i].stdin = suggestedCommand(message)
            /\ clipboard \in {<<>>, suggestedCommand(message)})
    /\ [](\A i \in DOMAIN output :
            output[i].key = "commandText" =>
                /\ output[i].text = suggestedCommand(message)
                /\ clipboard \in {<<>>, output[i].text}
                /\ \A j \in ClipboardSpawns : spawned[j].stdin = output[i].text)

C32_Witness ==
    /\ pc = "exited" /\ exitCode = 0
    /\ clipboard # <<>>
    /\ LastLine.key = "commandText" /\ LastLine.text = clipboard
    /\ Cardinality(ClipboardSpawns) = 2
    /\ Len(calls) = 3

-----------------------------------------------------------------------------
(* Properties of the argument parsing, under SpecCli                       *)

\* the option name of an argument: what precedes "=" in a "--" argument
OptionTokenOf(a) ==
    IF StartsWith(a, <<"-", "-">>) /\ IndexOf(a, "=") # 0
    THEN SubSeq(a, 1, IndexOf(a, "=") - 1) ELSE a

\* argv[i] is the value of a --lang or -l just before it
IsValueAt(i) ==
    /\ i > 1
    /\ argv[i - 1] \in {ArgLang, ArgShortLang}
    /\ argv[i] # <<>>
    /\ ~StartsWith(argv[i], <<"-">>)

UnknownOptionAt(i) ==
    /\ argv[i] # <<>>
    /\ ~IsValueAt(i)
    /\ OptionTokenOf(argv[i]) \notin {ArgLang, ArgShortLang, ArgHelp, ArgShortHelp}

LangMissingValueAt(i) ==
    \/ argv[i] \in {ArgLang, ArgShortLang} /\ (i = Len(argv) \/ ~IsValueAt(i + 1))
    \/ argv[i] = ArgLangNone

LangInvalidAt(i) ==
    \/ /\ argv[i] \in {ArgLang, ArgShortLang}
       /\ i < Len(argv) /\ IsValueAt(i + 1) /\ argv[i + 1] \notin {EN, ZH}
    \/ /\ StartsWith(argv[i], ArgLang \o <<"=">>)
       /\ SubSeq(argv[i], Len(ArgLang) + 2, Len(argv[i])) \notin {<<>>, EN, ZH}

HelpValueAt(i) == StartsWith(argv[i], ArgHelp \o <<"=">>)

OffendingAt(i) ==
    UnknownOptionAt(i) \/ LangMissingValueAt(i) \/ LangInvalidAt(i) \/ HelpValueAt(i)

HelpPresent == \E i \in DOMAIN argv : argv[i] \in {ArgHelp, ArgShortHelp}

ErrorKeys == {"unknownOption", "missingLang", "invalidLang", "unexpectedOptionValue"}

\* C11: when the arguments parse and --help or -h is among them, wherever
\* it stands and whatever the language chosen, main prints the usage in that
\* language and ends with status 0; no git query, generator call or clipboard
\* write is made.
C11_HelpPrintsUsageOnly ==
    (pc # "parse" /\ HelpPresent /\ \A i \in DOMAIN argv : ~OffendingAt(i)) =>
        /\ parsed.ok /\ parsed.help
        /\ pc = "exited"
        /\ exitCode = 0
        /\ output = printHelp(lang)
        /\ spawned = <<>>
        /\ calls = <<>>
        /\ requestInput = <<>>
        /\ clipboard = <<>>

C11_Witness ==
    /\ argv = <<ArgShortHelp, ArgLangZh>>
    /\ pc = "exited" /\ exitCode = 0 /\ output = printHelp(ZH)

\* C12: an argument list holding an unknown option, a --lang without a
\* value, a --lang with a value that is no language, or a --help with a
\* value, makes parseCliOptions return an error; main prints it and the hint
\* on standard error and exits with status 1 before any git query or
\* generator call.
C12_ParseErrorExitsOne ==
    (pc # "parse" /\ \E i \in DOMAIN argv : OffendingAt(i)) =>
        /\ ~parsed.ok
        /\ parsed.errorKey \in ErrorKeys
        /\ pc = "exited"
        /\ exitCode = 1
        /\ output = << Line("err", parsed.errorKey, lang, parsed.errorArg, NoReason),
                       Localized("err", "useHelpHint", lang) >>
        /\ spawned = <<>>
        /\ calls = <<>>
        /\ requestInput = <<>>
        /\ clipboard = <<>>

C12_Witness ==
    /\ argv = <<ArgLangZh, ArgHelpValue>>
    /\ pc = "exited" /\ exitCode = 1
    /\ output[1] = Line("err", "unexpectedOptionValue", ZH, ArgHelpValue, NoReason)

\* the language argv[i] sets, <<>> when it sets none
LangSetAt(i) ==
    IF /\ argv[i] \in {ArgLang, ArgShortLang}
       /\ i < Len(argv) /\ IsValueAt(i + 1) /\ argv[i + 1] \in {EN, ZH}
    THEN argv[i + 1]
    ELSE IF /\ StartsWith(argv[i], ArgLang \o <<"=">>)
            /\ SubSeq(argv[i], Len(ArgLang) + 2, Len(argv[i])) \in {EN, ZH}
    THEN SubSeq(argv[i], Len(ArgLang) + 2, Len(argv[i]))
    ELSE <<>>

\* the language in effect before argv[k] is read
LangBefore(k) ==
    LET set == {i \in 1..(k - 1) : LangSetAt(i) # <<>>}
    IN  IF set = {} THEN DEFAULT_LANG
        ELSE LangSetAt(CHOOSE i \in set : \A j \in set : j <= i)

FirstOffending == CHOOSE k \in DOMAIN argv : OffendingAt(k) /\ \A j \in 1..(k - 1) : ~OffendingAt(j)

\* C33: a usage error comes with the language set by the --lang options
\* before the offending argument, en when there is none; the error and the
\* hint are printed in it, and the arguments after the offending one change
\* nothing of it.
C33_ErrorInLanguageInEffect ==
    (pc # "parse" /\ ~parsed.ok) =>
        /\ \E k \in DOMAIN argv : OffendingAt(k)
        /\ parsed.lang = LangBefore(FirstOffending)
        /\ Len(output) = 2
        /\ output[1].lang = LangBefore(FirstOffending)
        /\ output[2] = Localized("err", "useHelpHint", LangBefore(FirstOffending))
        /\ \A i \in (FirstOffending + 1)..Len(argv) :
              parseCliOptions(SubSeq(argv, 1, i)).lang = parsed.lang

C33_Witness ==
    /\ pc = "exited" /\ ~parsed.ok
    /\ argv = <<ArgLangZh, ArgBad>>
    /\ parsed.lang = ZH /\ output[2].lang = ZH

\* the loop of parseCliOptions reads argv[i] as an option
ReadAsOption(i) == parseCliOptions(SubSeq(argv, 1, i - 1)).ok /\ ~IsValueAt(i)

C34_WitnessTaken ==
    /\ pc # "parse"
    /\ argv = <<ArgLang, ZH>>
    /\ parsed.ok /\ parsed.lang = ZH

-----------------------------------------------------------------------------
(* Properties of the payload, under SpecPayload                            *)

EndsWith(s, q) == Len(s) >= Len(q) /\ SubSeq(s, Len(s) - Len(q) + 1, Len(s)) = q

\* the text main assembled in this run
Assembled == assemblePayload(status, stagedDiff, unstagedDiff)

\* main has handed the payload to generateCommitMessage
PayloadPassed == pc \in {"generate", "responses"} \/ genError.kind = "missingKey"

\* the text the generator is given in the user message
PromptText == requestInput[2].content.text

\* C13 as stated: the text given to generateCommitMessage is at most 20,000
\* characters long, and ends with the truncation marker when the assembled
\* text was longer than that.
C13_PayloadAtMostLimit ==
    PayloadPassed =>
        /\ Len(diffPayload) <= DIFF_CHAR_LIMIT
        /\ Len(Assembled) > DIFF_CHAR_LIMIT => EndsWith(diffPayload, TruncationMarker)

\* C13, amended: an assembled text of at most 20,000 characters is given
\* unchanged; of a longer one the first 20,000 characters are given, followed
\* by the truncation marker, so that the payload is 20,013 characters long.
C13_PayloadKeepsLimitThenMarker ==
    PayloadPassed =>
        /\ Len(Assembled) <= DIFF_CHAR_LIMIT => diffPayload = Assembled
        /\ Len(Assembled) > DIFF_CHAR_LIMIT =>
            /\ Len(diffPayload) = DIFF_CHAR_LIMIT + Len(TruncationMarker)
            /\ SubSeq(diffPayload, 1, DIFF_CHAR_LIMIT) = SubSeq(Assembled, 1, DIFF_CHAR_LIMIT)
            /\ EndsWith(diffPayload, TruncationMarker)
        /\ pc = "responses" => PromptText = diffPayload /\ requestMessages = requestInput

C13_Witness ==
    /\ pc = "responses"
    /\ Len(Assembled) = DIFF_CHAR_LIMIT + 1
    /\ Len(PromptText) = DIFF_CHAR_LIMIT + 13

-----------------------------------------------------------------------------
(* Properties of truncate, under SpecTruncate                              *)

\* C14: truncate is idempotent, truncate(truncate(s, n), n) is
\* truncate(s, n) for every text s and every limit n >= 1, and truncate(s, n)
\* is s when s has at most n characters.
C14_TruncateIdempotent ==
    /\ (fnPc \in {"once", "twice"} /\ Len(fnIn.text) <= fnIn.maxChars) =>
            fnOut[1] = fnIn.text
    /\ fnPc = "twice" => fnOut[2] = fnOut[1]

C14_Witness ==
    /\ fnPc = "twice"
    /\ fnIn.text = <<"a", "b", "a">> /\ fnIn.maxChars = 2
    /\ fnOut[2] = <<"a", "b">> \o TruncationMarker

-----------------------------------------------------------------------------
(* Properties of the status classification, under SpecStatusKinds          *)

\* C19: statusKindsFromCode returns the untracked kind alone for the code
\* "??" and the ignored kind alone for the code "!!".
C19_SentinelCodes ==
    fnPc = "classified" =>
        /\ fnIn.code = <<"?", "?">> => fnOut[1] = <<"?">>
        /\ fnIn.code = <<"!", "!">> => fnOut[1] = <<"!">>

C19_Witness == fnPc = "classified" /\ fnIn.code = <<"!", "!">> /\ fnOut = << <<"!">> >>

\* the place of a kind in the order A, M, D, R, C, U, T
KindRank(k) ==
    CHOOSE n \in 1..7 : <<"A", "M", "D", "R", "C", "U", "T">>[n] = k

KindsIn(code) ==
    {k \in {"A", "M", "D", "R", "C", "U", "T"} : \E i \in DOMAIN code : code[i] = k}

\* C20: for a code other than "??" and "!!", statusKindsFromCode returns
\* the kinds among A, M, D, R, C, U, T found in the code, each once, in that
\* order whatever their order in the code; the single tag other when there is
\* none; never an empty list.
C20_KindsInFixedOrder ==
    (fnPc = "classified" /\ fnIn.code \notin {<<"?", "?">>, <<"!", "!">>}) =>
        LET kinds == fnOut[1]
        IN  /\ kinds # <<>>
            /\ KindsIn(fnIn.code) = {} => kinds = <<"other">>
            /\ KindsIn(fnIn.code) # {} =>
                /\ {kinds[i] : i \in DOMAIN kinds} = KindsIn(fnIn.code)
                /\ \A i, j \in DOMAIN kinds : i < j => KindRank(kinds[i]) < KindRank(kinds[j])
            /\ {"A", "M"} \subseteq KindsIn(fnIn.code) => kinds = <<"A", "M">>

C20_Witness == fnPc = "classified" /\ fnIn.code = <<"M", "A">> /\ fnOut[1] = <<"A", "M">>

\* the place of a kind in the order D, U, M, A, R, C, T, ?, !, other
PriorityRank(k) ==
    CHOOSE n \in 1..10 : <<"D", "U", "M", "A", "R", "C", "T", "?", "!", "other">>[n] = k

\* C21: detectStatusKind returns the kind that comes first in the order
\* D, U, M, A, R, C, T, ?, !, other among the kinds statusKindsFromCode gives
\* for the same code: D for the kinds M and D; always one of those kinds.
C21_DominantKindByPriority ==
    fnPc = "detected" =>
        LET kinds == {fnOut[1][i] : i \in DOMAIN fnOut[1]}
        IN  /\ fnOut[2] \in kinds
            /\ \A k \in kinds : PriorityRank(fnOut[2]) <= PriorityRank(k)
            /\ kinds = {"M", "D"} => fnOut[2] = "D"

C21_Witness ==
    /\ fnPc = "detected" /\ fnIn.code = <<"M", "D">>
    /\ fnOut = << <<"M", "D">>, "D" >>

-----------------------------------------------------------------------------
(* Properties of cleanupModelMessage, under SpecCleanup                    *)

\* the indices of the characters of s that are no whitespace, in order
NonSpaceIndices(s) ==
    LET NonSpaceAt(i) == s[i] \notin {SP, NL, TAB}
    IN  SelectSeq([i \in 1..Len(s) |-> i], NonSpaceAt)

\* the words of a text joined by single spaces: the k-th character that is
\* no whitespace, with one space before it when whitespace came before it
\* and after the one before
RECURSIVE JoinedFrom(_, _, _)
JoinedFrom(s, idx, k) ==
    IF k > Len(idx) THEN <<>>
    ELSE (IF k > 1 /\ idx[k] - idx[k - 1] > 1 THEN <<SP, s[idx[k]]>> ELSE <<s[idx[k]]>>)
         \o JoinedFrom(s, idx, k + 1)

SingleSpaced(s) == JoinedFrom(s, NonSpaceIndices(s), 1)

\* c is n without the backticks it starts with and the backticks it ends with
IsTickStripped(n, c) ==
    \E a, b \in 0..Len(n) :
        /\ a + b + Len(c) = Len(n)
        /\ \A i \in 1..a : n[i] = BT
        /\ \A i \in (Len(n) - b + 1)..Len(n) : n[i] = BT
        /\ c = SubSeq(n, a + 1, Len(n) - b)
        /\ c # <<>> => c[1] # BT /\ c[Len(c)] # BT

\* out is c without one double quote at its start and one at its end
IsQuoteStripped(c, out) ==
    \E qa, qb \in {0, 1} :
        /\ qa + qb <= Len(c)
        /\ out = SubSeq(c, qa + 1, Len(c) - qb)
        /\ (qa = 1) <=> (c # <<>> /\ c[1] = DQ)
        /\ (qb = 1) <=> (Len(c) - qa >= 1 /\ c[Len(c)] = DQ)

\* C22: cleanupModelMessage makes every run of whitespace one space and
\* trims, then strips the backticks at the start and at the end, then one
\* double quote at the start and one at the end, in that order; a valid
\* header in one pair of double quotes or in backticks comes out bare.
C22_CleanupStripsWrapping ==
    fnPc = "cleaned" =>
        LET n == SingleSpaced(fnIn.raw)
        IN  /\ \E i, j \in 0..Len(n) :
                  /\ IsTickStripped(n, SubSeq(n, i + 1, j))
                  /\ IsQuoteStripped(SubSeq(n, i + 1, j), fnOut[1])
            /\ fnIn.raw \in { <<DQ>> \o ValidHeader \o <<DQ>>,
                               <<BT>> \o ValidHeader \o <<BT>>,
                               <<BT, BT, BT>> \o ValidHeader \o <<BT, BT, BT>> }
                  => fnOut[1] = ValidHeader

C22_Witness ==
    /\ fnPc = "cleaned"
    /\ fnIn.raw = <<SP, BT, DQ>> \o ValidHeader \o <<DQ, BT, NL>>
    /\ fnOut[1] = ValidHeader

\* c neither starts nor ends with whitespace, a backtick or a double quote
Bare(c) ==
    c # <<>> => /\ c[1] \notin {SP, NL, TAB, BT, DQ}
                /\ c[Len(c)] \notin {SP, NL, TAB, BT, DQ}

\* C35 as stated: cleanupModelMessage applied to its own result changes
\* nothing, and its result neither starts nor ends with whitespace, a
\* backtick or a double quote.
C35_CleanupIdempotent ==
    fnPc = "cleanedTwice" => fnOut[2] = fnOut[1] /\ Bare(fnOut[1])

\* C35, amended: cleanupModelMessage is one pass, whitespace, then
\* backticks, then one double quote at each end, and its result can still
\* start or end with a space, a backtick or a double quote; applied to its
\* own result it changes nothing exactly when that result neither starts nor
\* ends with one of them, and otherwise gives a shorter part of it.
C35_CleanupIdempotentWhenBare ==
    fnPc = "cleanedTwice" =>
        /\ fnOut[2] = fnOut[1] <=> Bare(fnOut[1])
        /\ Len(fnOut[2]) <= Len(fnOut[1])
        /\ \E i \in 0..Len(fnOut[1]) :
              fnOut[2] = SubSeq(fnOut[1], i + 1, i + Len(fnOut[2]))
        /\ fnOut[1] \in {<<>>, ValidHeader} => fnOut[2] = fnOut[1]

C35_Witness ==
    /\ fnPc = "cleanedTwice"
    /\ fnIn.raw = <<DQ, BT, "a", DQ>>
    /\ fnOut = << <<BT, "a">>, <<"a">> >>

-----------------------------------------------------------------------------
(* Properties of the suggested command, under SpecCommand                  *)

ShellSpecial == {BS, DQ, BT, DOLLAR}

\* the place in the escaped text of the k-th character of msg
EscapedPlace(msg, k) == k + Cardinality({i \in 1..k : msg[i] \in ShellSpecial})

\* reads an escaped text: a backslash gives the character after it
RECURSIVE Unescape(_)
Unescape(t) ==
    IF t = <<>> THEN <<>>
    ELSE IF Head(t) = BS /\ Len(t) >= 2 THEN <<t[2]>> \o Unescape(SubSeq(t, 3, Len(t)))
    ELSE <<Head(t)>> \o Unescape(Tail(t))

\* C23: the suggested command is git commit -m "<escaped>", the escaped
\* text being the message with one backslash added before every backslash,
\* double quote, backtick and dollar, the other characters unchanged and in
\* order; taking the added backslashes away gives the message back.
C23_CommandEscapesMessage ==
    fnPc = "built" =>
        LET msg == fnIn.message
            out == fnOut[1]
            head == Len(GitCommitPrefix) + 1
            escaped == SubSeq(out, head + 1, Len(out) - 1)
        IN  /\ SubSeq(out, 1, head) = GitCommitPrefix \o <<DQ>>
            /\ Len(out) >= head + 1 /\ out[Len(out)] = DQ
            /\ Len(escaped) = EscapedPlace(msg, Len(msg))
            /\ \A k \in DOMAIN msg :
                /\ escaped[EscapedPlace(msg, k)] = msg[k]
                /\ msg[k] \in ShellSpecial => escaped[EscapedPlace(msg, k) - 1] = BS
            /\ Unescape(escaped) = msg

C23_Witness ==
    /\ fnPc = "built" /\ fnIn.message = <<"a", BS, DQ, DOLLAR>>
    /\ fnOut[1] = GitCommitPrefix \o <<DQ, "a", BS, BS, BS, DQ, BS, DOLLAR, DQ>>

-----------------------------------------------------------------------------
(* Properties of copyToClipboard, under SpecClipboard                      *)

\* C27: on Linux copyToClipboard runs wl-copy first and
\* xclip -selection clipboard only when wl-copy failed; it succeeds when one
\* of them succeeds and raises an error only when both fail; on a platform
\* other than darwin, win32 and linux it raises an error and runs no command.
C27_LinuxFallbackAndUnsupported ==
    fnPc = "copied" =>
        LET r == fnOut[1]
            n == Len(r.spawns)
        IN  /\ fnIn.platform = "linux" =>
                /\ n \in {1, 2}
                /\ r.spawns[1].cmd = <<"wl-copy">>
                /\ (n = 2) <=> ~fnIn.first.ok
                /\ n = 2 => r.spawns[2].cmd = <<"xclip", "-selection", "clipboard">>
                /\ r.ok <=> (fnIn.first.ok \/ fnIn.second.ok)
                /\ \A i \in 1..n : r.spawns[i].stdin = fnIn.text
            /\ fnIn.platform \notin {"darwin", "win32", "linux"} =>
                /\ ~r.ok
                /\ r.spawns = <<>>
                /\ r.detail # ""

C27_Witness ==
    /\ fnPc = "copied" /\ fnIn.platform = "linux"
    /\ ~fnIn.first.ok /\ fnIn.second.ok
    /\ fnOut[1].ok /\ Len(fnOut[1].spawns) = 2

\* an unsupported platform
C27_WitnessUnsupported ==
    fnPc = "copied" /\ fnIn.platform = "freebsd" /\ ~fnOut[1].ok

====
